---- MODULE Spec2Model ----
(***************************************************************************)
(* Model of testing/AutoLoadPlan.py: the batch driver main(), the entity   *)
(* resolver load_patient_data(), the audit logger output_status(), the     *)
(* beamset naming loop and merge_dict().  The planning application         *)
(* (patients, cases, exams,                                                *)
(* plans, beamsets), the protocol templates and the planning-structure     *)
(* configuration are the environment: their answers are chosen with \E.    *)
(***************************************************************************)
EXTENDS Integers, Sequences, FiniteSets, TLC

(* ------------------------------ bounds -------------------------------- *)
\* rows of the batch file
NumRows == 2
\* patient records a QueryPatientInfo call can return
MaxMatches == 2
\* beams a protocol template can hold
MaxBeams == 2
\* queries of one naming loop that leave the candidate unchanged
MaxProbes == 2

(* --------------------------- python values ---------------------------- *)
None == "<None>"
Unbound == "<unbound>"
NaN == "<nan>"
MissingColumn == "<no column>"

Digit == <<"0", "1", "2", "3", "4", "5", "6", "7", "8", "9">>

\* str(n) for 0 <= n <= 99
StrInt(n) == IF n < 10 THEN Digit[n + 1] ELSE Digit[(n \div 10) + 1] \o Digit[(n % 10) + 1]

\* s.zfill(w)
RECURSIVE zfill(_, _)
zfill(s, w) == IF Len(s) < w THEN zfill("0" \o s, w) ELSE s

\* str(b) for a bool
StrBool(b) == IF b THEN "True" ELSE "False"

\* str(l) for a list of strings: "['a', 'b']"
RECURSIVE JoinRepr(_)
JoinRepr(l) ==
    IF Len(l) = 0 THEN ""
    ELSE IF Len(l) = 1 THEN "'" \o l[1] \o "'"
    ELSE "'" \o l[1] \o "', " \o JoinRepr(Tail(l))

StrList(l) == "[" \o JoinRepr(l) \o "]"

\* s[:n]
Prefix(s, n) == SubSeq(s, 1, IF Len(s) < n THEN Len(s) ELSE n)

\* re.search('^' + pat, s) for a pattern without metacharacters
StartsWith(s, pat) == Len(pat) <= Len(s) /\ SubSeq(s, 1, Len(pat)) = pat

\* re.search(pat, s) for a pattern without metacharacters
Contains(s, pat) ==
    \E i \in 1..(Len(s) - Len(pat) + 1) : SubSeq(s, i, i + Len(pat) - 1) = pat

(* ------------------------------ the rows ------------------------------ *)
\* identity columns of a row (one patient, one case, one exam, one plan name)
RowPatientID == "ID1"
RowFirstName == "Ann"
RowLastName == "Lee"
RowCase == "Case1"
RowExam == "CT1"
OtherExam == "CT10"

RowPlan == "Plan"
PlanNames == {"Plan", "Plan2"}
DesiredNames == {"BS", "HeadNeck_VMAT_01"}
InitPlans == SUBSET PlanNames
InitNamespaces == {{}, {"BS01"}, {"BS", "HeadNeck_VMAT_01"}}

Techniques == {"TomoHelical", "VMAT", "SMLC"}
Workflows == {"WF1"}


(* --------------------------- output_status ---------------------------- *)
PyNone == [type |-> "NoneType", items |-> <<>>]
PyList(l) == [type |-> "list", items |-> l]

\* str(script_status) as output_status formats it
StrStatus(script_status) ==
    IF script_status.type = "list" THEN StrList(script_status.items) ELSE "None"

Header == <<"PatientID", "Case", "Plan", "Beamset", "Patient Loaded",
            "Planning Structs Loaded", "Beams Loaded", "Clinical Goals Loaded",
            "Optimization Strategy Loaded", "Optimization Completed",
            "Plan Complete">>

\* open(output_filename, "w+"): creates or truncates
OpenWrite(f) == [exists |-> TRUE, lines |-> <<>>]

\* open(output_filename, "a+"): creates when absent, keeps the content
OpenAppend(f) == [exists |-> TRUE, lines |-> IF f.exists THEN f.lines ELSE <<>>]

\* the buffer of a "w+" handle reaches the file from offset 0 on
FlushFromStart(f, buf) ==
    [f EXCEPT !.lines = buf \o SubSeq(f.lines, Len(buf) + 1, Len(f.lines))]

\* the buffer of an "a+" handle reaches the file at its end
FlushAtEnd(f, buf) == [f EXCEPT !.lines = f.lines \o buf]

\* the branch taken for every existing file
HasContentIfExists(f) == f.exists

\* the branch of line 83: the file exists and is not empty
HasContent(f) == f.exists /\ Len(f.lines) # 0

\* a data line whose first two flags changed places
DataLineSwapped(patient_id, case_name, plan_name, beamset_name, patient_load, planning_structs, beams_load, clinical_goals_load, plan_optimization_strategy_load, optimization_complete, script_status) ==
    <<patient_id, case_name, plan_name, beamset_name,
      StrBool(planning_structs), StrBool(patient_load), StrBool(beams_load),
      StrBool(clinical_goals_load), StrBool(plan_optimization_strategy_load),
      StrBool(optimization_complete),
      IF script_status = PyNone THEN "success" ELSE StrStatus(script_status)>>

\* the data line of lines 108-119, one field per column
DataLine(patient_id, case_name, plan_name, beamset_name, patient_load, planning_structs, beams_load, clinical_goals_load, plan_optimization_strategy_load, optimization_complete, script_status) ==
    <<patient_id, case_name, plan_name, beamset_name,
      StrBool(patient_load), StrBool(planning_structs), StrBool(beams_load),
      StrBool(clinical_goals_load), StrBool(plan_optimization_strategy_load),
      StrBool(optimization_complete),
      IF script_status = PyNone THEN "success" ELSE StrStatus(script_status)>>

\* a call that writes its data line through both handles
output_status_twice(f, line) ==
    LET first == IF HasContent(f) THEN OpenAppend(f) ELSE OpenWrite(f)
        buffered == IF HasContent(f) THEN <<line>> ELSE <<Header, line>>
        second == OpenAppend(first)
        released == IF HasContent(f) THEN FlushAtEnd(second, buffered)
                    ELSE FlushFromStart(second, buffered)
    IN  FlushAtEnd(released, <<line>>)

\* the file after one call of output_status
output_status(f, line) ==
    LET first == IF HasContent(f) THEN OpenAppend(f) ELSE OpenWrite(f)
        buffered == IF HasContent(f) THEN <<>> ELSE <<Header>>
        second == OpenAppend(first)
        \* rebinding output_file releases the first handle, which flushes it
        released == IF HasContent(f) THEN FlushAtEnd(second, buffered)
                    ELSE FlushFromStart(second, buffered)
    IN  FlushAtEnd(released, <<line>>)

(* ------------------------- load_patient_data -------------------------- *)
PatientNotFound(first_name, last_name, patient_id) ==
    "Patient " \o first_name \o " " \o last_name \o ", ID: " \o patient_id \o " not found"
CaseNotFound(case_name) == "Case " \o case_name \o " not found"
ExamNotFound(exam_name) == "Exam " \o exam_name \o " not found"
PlanNotFound(plan_name) == "Plan " \o plan_name \o " not found"

EmptyPatientData == [Error |-> <<>>, Case |-> None, Patient |-> None,
                     Exam |-> None, Plan |-> None]

\* only an empty result counts as not found
NoPatient(n_patients) == n_patients = 0

\* line 155: the patient query did not return exactly one record
NotOnePatient(n_patients) == n_patients # 1

\* names QueryPlanInfo(Filter={'Name': plan_name}) can return
PlanMatches(plans, plan_name) == {p \in plans : Contains(p, plan_name)}

\* n_patients: records QueryPatientInfo returns; case_found: the case exists;
\* exam_first: name of the first examination returned (None: no result);
\* plan_first: name of the first plan returned (None: no result).
\* Result: the dict returned, the plans of the case afterwards, the calls
\* made on the planning application, and the exception that escapes, if any.
load_patient_data(patient_id, first_name, last_name, case_name, exam_name, plan_name, n_patients, case_found, exam_first, plan_first, plans) ==
    LET ret(d, ps, ev, exc) == [data |-> d, plans |-> ps, events |-> ev, raised |-> exc]
        d0 == EmptyPatientData
        d1 == [d0 EXCEPT !.Patient = patient_id]
        d2 == [d1 EXCEPT !.Case = case_name]
        exam == IF exam_first = exam_name THEN exam_name ELSE Unbound
        d3 == IF exam_first = exam_name THEN [d2 EXCEPT !.Exam = exam] ELSE d2
    IN  IF NotOnePatient(n_patients)
        THEN ret([d0 EXCEPT !.Error = <<PatientNotFound(first_name, last_name, patient_id)>>],
                 plans, <<>>, None)
        ELSE IF ~case_found
        THEN ret([d1 EXCEPT !.Error = Append(d1.Error, CaseNotFound(case_name))],
                 plans, <<"LoadPatient">>, None)
        ELSE IF exam_first = None
        THEN ret([d2 EXCEPT !.Error = Append(d2.Error, ExamNotFound(exam_name))],
                 plans, <<"LoadPatient">>, None)
        ELSE IF plan_first = None
        THEN \* info[0] raises IndexError: the plan is created
             IF exam = Unbound
             THEN ret(d3, plans, <<"LoadPatient">>, "UnboundLocalError")
             ELSE ret([d3 EXCEPT !.Plan = plan_name], plans \cup {plan_name},
                      <<"LoadPatient", "AddNewPlan", "Save">>, None)
        ELSE LET d4 == IF plan_first = plan_name THEN [d3 EXCEPT !.Plan = plan_name] ELSE d3
             IN  IF plan_name \in plans
                 THEN ret(d4, plans, <<"LoadPatient">>, None)
                 ELSE ret([d4 EXCEPT !.Error = Append(d4.Error, PlanNotFound(plan_name))],
                          plans, <<"LoadPatient">>, None)

(* ------------------------------- main --------------------------------- *)
VARIABLES
    pc,           \* position in the function running: the stage about to run
    index,        \* row of plan_data.iterrows()
    exit_status,  \* argument of sys.exit, or the exception that ended the run
    row,          \* cells of the current row of plan_data
    db,           \* what the planning application holds for the current row
    local,        \* local variables of the function running
    probes,       \* queries of the current naming loop that changed nothing
    plans,        \* plans of the case in the planning application
    beamsets,     \* beamset names of each plan
    current,      \* the session's current case, plan and beamset
    output_file,  \* the audit file
    initial_file, \* the audit file when the run began
    placed,       \* beams handed to the placement call of the current row
    trace,        \* calls made while processing the current row
    written       \* row and data line of each output_status call, in call order

vars == <<pc, index, exit_status, row, db, local, probes, plans, beamsets,
          current, output_file, initial_file, placed, trace, written>>

RandLow == 1
RandHigh == 99
NameLimit == 14

\* values random.randint(1,99) takes in the model: both ends of the range
\* and the first value that needs no padding
Draws == {r \in RandLow..RandHigh : r = RandLow \/ r = 10 \/ r = RandHigh}

OldLine == <<"ID0", "Case0", "Plan0", "BS0", "False", "False", "False",
             "False", "False", "False", "success">>
AbsentFile == [exists |-> FALSE, lines |-> <<>>]
InitFiles == {AbsentFile,
              [exists |-> TRUE, lines |-> <<>>],
              [exists |-> TRUE, lines |-> <<Header, OldLine>>]}

\* before a row is read.  The PlanningStructureWorkflow cell is drawn when
\* main first reads it, at line 408
NoRow == [BeamsetName |-> Unbound, PlanName |-> Unbound,
          PlanningStructureWorkflow |-> Unbound]
NoAnswers == [n_patients |-> 0, case_found |-> FALSE, exam_first |-> Unbound,
              plan_first |-> Unbound]

\* patient_data before load_patient_data returns
UnboundPatientData == [Error |-> <<>>, Case |-> Unbound, Patient |-> Unbound,
                       Exam |-> Unbound, Plan |-> Unbound]

\* the local beam before its first assignment
UnboundBeam == [row |-> 0, technique |-> Unbound, number |-> 0]

\* locals of main before the loop; beam is the only local whose value a
\* later row can read before assigning it, the others are dead at `continue`
NoLocals == [beamset_name |-> Unbound, plan_name |-> Unbound,
             patient_load |-> FALSE, planning_structs |-> FALSE,
             beams_load |-> FALSE, clinical_goals_load |-> FALSE,
             plan_optimization_strategy_load |-> FALSE,
             optimization_complete |-> FALSE,
             patient_data |-> UnboundPatientData,
             technique |-> Unbound, beams |-> <<>>, rs_beam_set |-> Unbound,
             iso |-> Unbound, beam |-> UnboundBeam]

Init ==
    /\ pc = "for"
    /\ index = 1
    /\ exit_status = None
    /\ row = NoRow
    /\ db = NoAnswers
    /\ local = NoLocals
    /\ probes = 0
    /\ plans \in InitPlans
    /\ \E ns \in InitNamespaces :
          beamsets = [p \in PlanNames |-> IF p \in plans THEN ns ELSE {}]
    /\ current = [Case |-> None, Plan |-> None, BeamSet |-> None]
    /\ output_file = AbsentFile
    /\ initial_file = output_file
    /\ placed = <<>>
    /\ trace = <<>>
    /\ written = <<>>

\* the data line main hands to output_status for the current row
RowLine(l, script_status) ==
    DataLine(RowPatientID, RowCase, l.plan_name, l.beamset_name,
             l.patient_load, l.planning_structs, l.beams_load,
             l.clinical_goals_load, l.plan_optimization_strategy_load,
             l.optimization_complete, script_status)

\* the `continue` statement is reached with locals l
ToContinue(l) ==
    /\ pc' = "continue"
    /\ local' = l
    /\ UNCHANGED <<index, exit_status, probes>>

\* line 370: the argument of sys.exit when the isocenter cannot be placed
IsoFailure == "Failed to place isocenter"

\* an uncaught exception, or sys.exit, ends the run, and main's locals with it
Exit(status) ==
    /\ pc' = "exited"
    /\ exit_status' = status
    /\ local' = NoLocals
    /\ UNCHANGED <<index, probes>>

\* a SetCurrent() that leaves the session as it was
SetCurrentSkipped(cur, kind, entity) == cur

\* lines 297, 299, 354: entity.SetCurrent() makes the entity the session's
\* current one of its kind
SetCurrent(cur, kind, entity) == [cur EXCEPT ![kind] = entity]

\* lines 253-301: the row's locals, load_patient_data, the error branch
LoadRow ==
    /\ pc = "for"
    /\ index <= NumRows
    /\ \E plan_name \in {RowPlan}, desired \in DesiredNames,
          n_patients \in 0..MaxMatches, case_found \in BOOLEAN,
          exam_first \in {None, RowExam, OtherExam},
          plan_first \in PlanNames \cup {None} :
        /\ plan_first = None <=> PlanMatches(plans, plan_name) = {}
        /\ plan_first # None => plan_first \in PlanMatches(plans, plan_name)
        /\ LET r == load_patient_data(RowPatientID, RowFirstName, RowLastName,
                                      RowCase, RowExam, plan_name, n_patients,
                                      case_found, exam_first, plan_first, plans)
               l == [local EXCEPT !.beamset_name = desired,
                                  !.plan_name = plan_name,
                                  !.patient_load = FALSE,
                                  !.planning_structs = FALSE,
                                  !.beams_load = FALSE,
                                  !.clinical_goals_load = FALSE,
                                  !.plan_optimization_strategy_load = FALSE,
                                  !.optimization_complete = FALSE]
               l0 == [l EXCEPT !.patient_data = r.data]
           IN  /\ row' = [NoRow EXCEPT !.BeamsetName = desired,
                                      !.PlanName = plan_name]
               /\ db' = [n_patients |-> n_patients, case_found |-> case_found,
                         exam_first |-> exam_first, plan_first |-> plan_first]
               /\ plans' = r.plans
               /\ UNCHANGED <<beamsets, placed, initial_file>>
               /\ IF r.raised # None
                  THEN /\ Exit(r.raised)
                       /\ trace' = r.events
                       /\ UNCHANGED <<current, output_file, written>>
                  ELSE IF r.data.Error # <<>>
                  THEN /\ output_file' = output_status(output_file,
                                            RowLine(l0, PyList(r.data.Error)))
                       /\ written' = Append(written, [row |-> index,
                                            line |-> RowLine(l0, PyList(r.data.Error))])
                       /\ trace' = r.events \o <<"output_status">>
                       /\ ToContinue(l0)
                       /\ UNCHANGED current
                  ELSE IF r.data.Plan = None
                  THEN \* plan.SetCurrent() on None
                       /\ Exit("AttributeError")
                       /\ current' = SetCurrent(current, "Case", r.data.Case)
                       /\ trace' = r.events \o <<"case.SetCurrent">>
                       /\ UNCHANGED <<output_file, written>>
                  ELSE /\ pc' = "naming"
                       /\ local' = [l0 EXCEPT !.patient_load = TRUE]
                       /\ current' = SetCurrent(SetCurrent(current, "Case", r.data.Case),
                                                "Plan", r.data.Plan)
                       /\ trace' = r.events \o <<"case.SetCurrent", "plan.SetCurrent">>
                       /\ probes' = 0
                       /\ UNCHANGED <<index, exit_status, output_file, written>>

\* a suffix without zero padding
MutateUnpadded(beamset_name, r) ==
    IF Len(beamset_name) > NameLimit
    THEN Prefix(beamset_name, NameLimit) \o StrInt(r)
    ELSE beamset_name \o StrInt(r)

\* a suffix that takes the place of the last two characters of a long name
MutateReplaceTail(beamset_name, r) ==
    IF Len(beamset_name) > NameLimit
    THEN Prefix(beamset_name, Len(beamset_name) - 2) \o zfill(StrInt(r), 2)
    ELSE beamset_name \o zfill(StrInt(r), 2)

\* a suffix that is appended whatever the length of the name
MutateAlwaysAppend(beamset_name, r) == beamset_name \o zfill(StrInt(r), 2)

\* lines 309-312: the candidate after a collision
Mutate(beamset_name, r) ==
    IF Len(beamset_name) > NameLimit
    THEN Prefix(beamset_name, NameLimit) \o zfill(StrInt(r), 2)
    ELSE beamset_name \o zfill(StrInt(r), 2)

\* plan.QueryBeamSetInfo(Filter={'Name': '^' + beamset_name})
QueryBeamSetInfo(names, beamset_name) == {n \in names : StartsWith(n, beamset_name)}

\* line 313: the loop ends when info[0] raises IndexError
LoopExits(info, beamset_name) == info = {}

\* lines 305-314: one iteration of the naming loop
NamingLoop ==
    /\ pc = "naming"
    /\ LET info == QueryBeamSetInfo(beamsets[local.patient_data.Plan], local.beamset_name)
       IN  IF LoopExits(info, local.beamset_name)
           THEN /\ pc' = "select_element"
                /\ UNCHANGED <<local, probes>>
           ELSE \E first \in info :
                  IF first = local.beamset_name
                  THEN /\ \E r \in Draws :
                            local' = [local EXCEPT !.beamset_name = Mutate(@, r)]
                       /\ UNCHANGED <<pc, probes>>
                  ELSE /\ probes < MaxProbes
                       /\ probes' = probes + 1
                       /\ UNCHANGED <<pc, local>>
    /\ UNCHANGED <<index, exit_status, row, db, plans, beamsets, current,
                   output_file, initial_file, placed, trace, written>>

\* protocol templates a row can name: a technique and a number of beams
Templates == [technique : Techniques, n : 1..MaxBeams]

\* BeamOperations.load_beams_xml: the beams of the row's template
load_beams_xml(i, template) ==
    [k \in 1..template.n |-> [row |-> i, technique |-> template.technique, number |-> k]]

\* lines 316-343: select_element(...)[0] and the beamset definition
SelectElement ==
    /\ pc = "select_element"
    /\ \E found \in BOOLEAN, technique \in Techniques :
          IF ~found
          THEN \* [0] on an empty result
               /\ technique = CHOOSE t \in Techniques : TRUE
               /\ Exit("IndexError")
               /\ trace' = Append(trace, "select_element")
          ELSE /\ pc' = "create_beamset"
               /\ local' = [local EXCEPT !.technique = technique]
               /\ trace' = Append(trace, "select_element")
               /\ UNCHANGED <<index, exit_status, probes>>
    /\ UNCHANGED <<row, db, plans, beamsets, current, output_file, initial_file,
                   placed, written>>

\* the beamset named by the row's BeamsetName cell
BeamsetDefsNameFromRow(r, l) == r.BeamsetName

\* lines 336-337: beamset_defs.name is the name the loop ended with
BeamsetDefsName(r, l) == l.beamset_name

\* a creation that adds nothing to the plan
create_beamset_lost(names, name) == names

\* lines 345-351: BeamOperations.create_beamset adds the beamset of that
\* name to the beamsets of the plan
create_beamset(names, name) == names \cup {name}

\* lines 345-358: the beamset is created, saved and made current, and the
\* beams of the row's template are loaded
CreateBeamset ==
    /\ pc = "create_beamset"
    /\ pc' = "find_isocenter"
    /\ beamsets' = [beamsets EXCEPT ![local.patient_data.Plan] =
                          create_beamset(@, BeamsetDefsName(row, local))]
    /\ \E template \in Templates :
          /\ template.technique = local.technique
          /\ local' = [local EXCEPT !.rs_beam_set = BeamsetDefsName(row, local),
                                    !.beams = load_beams_xml(index, template)]
    /\ current' = SetCurrent(current, "BeamSet", BeamsetDefsName(row, local))
    /\ trace' = trace \o <<"create_beamset", "Save", "beamset.SetCurrent", "load_beams_xml">>
    /\ UNCHANGED <<index, exit_status, row, db, probes, plans, output_file,
                   initial_file, placed, written>>

\* a dispatch that hands the beams of every template to the VMAT placement
PlaceBeamsAnyTechnique(technique, beams, beam) ==
    [beam |-> beam, placed |-> beams, beams_load |-> TRUE,
     events |-> <<"place_beams_in_beamset">>, raised |-> None]

\* lines 372-387: what the technique branch does.  Result: the local beam,
\* the beams handed to the placement call, beams_load, the calls, the
\* exception that escapes
PlaceBeams(technique, beams, beam) ==
    LET ret(b, p, bl, ev, exc) ==
            [beam |-> b, placed |-> p, beams_load |-> bl, events |-> ev, raised |-> exc]
    IN  IF technique = "TomoHelical"
        THEN IF Len(beams) > 1
             THEN IF beam = UnboundBeam
                  THEN ret(beam, <<>>, FALSE, <<"warning">>, "UnboundLocalError")
                  ELSE ret(beam, <<beam>>, TRUE,
                           <<"warning", "place_tomo_beam_in_beamset">>, None)
             ELSE ret(beams[1], <<beams[1]>>, TRUE,
                      <<"place_tomo_beam_in_beamset">>, None)
        ELSE IF technique = "VMAT"
        THEN ret(beam, beams, TRUE, <<"place_beams_in_beamset">>, None)
        ELSE ret(beam, <<>>, FALSE, <<"debug">>, None)

\* lines 360-407: the isocenter or sys.exit, the technique dispatch, the
\* audit record of a row without beams
Technique ==
    /\ pc = "find_isocenter"
    /\ \E located \in BOOLEAN :
        LET r == PlaceBeams(local.technique, local.beams, local.beam)
            l1 == [local EXCEPT !.iso = "iso",
                                !.beam = r.beam,
                                !.beams_load = r.beams_load]
            t1 == Append(trace, "find_isocenter_parameters")
        IN  IF ~located
            THEN /\ Exit(IsoFailure)
                 /\ trace' = t1
                 /\ UNCHANGED <<placed, output_file, written>>
            ELSE IF r.raised # None
            THEN /\ Exit(r.raised)
                 /\ placed' = r.placed
                 /\ trace' = t1 \o r.events
                 /\ UNCHANGED <<output_file, written>>
            ELSE IF ~l1.beams_load
            THEN /\ output_file' = output_status(output_file, RowLine(l1, PyNone))
                 /\ written' = Append(written, [row |-> index, line |-> RowLine(l1, PyNone)])
                 /\ placed' = r.placed
                 /\ trace' = t1 \o r.events \o <<"output_status">>
                 /\ ToContinue(l1)
            ELSE /\ pc' = "planning"
                 /\ local' = l1
                 /\ placed' = r.placed
                 /\ trace' = t1 \o r.events \o <<"Save", "beamset.SetCurrent">>
                 /\ UNCHANGED <<index, exit_status, probes, output_file, written>>
    /\ UNCHANGED <<row, db, plans, beamsets, current, initial_file>>

\* lines 408-583: the planning structures of the row, then `continue`.
\* workflow: the PlanningStructureWorkflow cell (NaN when empty, no
\* attribute when the column is missing); config_read: the configuration
\* file named by the row can be parsed; preset_found: df_workflow is not empty
PlanningStructures ==
    /\ pc = "planning"
    /\ \E workflow \in Workflows \cup {NaN, MissingColumn},
          config_read \in BOOLEAN, preset_found \in BOOLEAN :
        /\ workflow = MissingColumn => ~config_read /\ ~preset_found
        /\ ~config_read => ~preset_found
        /\ workflow = NaN => ~preset_found
        /\ row' = [row EXCEPT !.PlanningStructureWorkflow = workflow]
        /\ IF workflow = MissingColumn
           THEN /\ Exit("AttributeError")
                /\ UNCHANGED trace
           ELSE IF ~config_read
           THEN /\ Exit("IOError")
                /\ trace' = Append(trace, "parse")
           ELSE IF ~preset_found
           THEN /\ ToContinue([local EXCEPT !.planning_structs = FALSE])
                /\ trace' = Append(trace, "parse")
           ELSE /\ ToContinue(local)
                /\ trace' = trace \o <<"parse", "planning_structures">>
    /\ UNCHANGED <<db, plans, beamsets, current, output_file, initial_file,
                   placed, written>>

\* `continue` (lines 291, 404, 583): the loop takes the next row
Continue ==
    /\ pc = "continue"
    /\ pc' = "for"
    /\ index' = index + 1
    /\ row' = NoRow
    /\ db' = NoAnswers
    /\ local' = [NoLocals EXCEPT !.beam = local.beam]
    /\ probes' = 0
    /\ placed' = <<>>
    /\ trace' = <<>>
    /\ UNCHANGED <<exit_status, plans, beamsets, current, output_file,
                   initial_file, written>>

\* line 584: sys.exit('Done') after the last row
Done ==
    /\ pc = "for"
    /\ index > NumRows
    /\ Exit("Done")
    /\ UNCHANGED <<row, db, plans, beamsets, current, output_file,
                   initial_file, placed, trace, written>>

Next ==
    \/ LoadRow
    \/ NamingLoop
    \/ SelectElement
    \/ CreateBeamset
    \/ Technique
    \/ PlanningStructures
    \/ Continue
    \/ Done

Spec == Init /\ [][Next]_vars

(* ------------------- output_status called on its own ------------------ *)
\* calls of output_status on one path
MaxCalls == 2

\* data lines a caller can hand over: the flags main sets and both kinds
\* of script_status
AuditLines ==
    {DataLine(RowPatientID, RowCase, RowPlan, "BS", patient_load, FALSE,
              beams_load, FALSE, FALSE, FALSE, script_status) :
        patient_load \in BOOLEAN, beams_load \in BOOLEAN,
        script_status \in {PyNone, PyList(<<CaseNotFound(RowCase)>>)}}

AuditInit ==
    /\ pc = "output_status"
    /\ index = 1
    /\ exit_status = None
    /\ row = NoRow
    /\ db = NoAnswers
    /\ local = NoLocals
    /\ probes = 0
    /\ plans = {}
    /\ beamsets = [p \in PlanNames |-> {}]
    /\ current = [Case |-> None, Plan |-> None, BeamSet |-> None]
    /\ output_file \in InitFiles
    /\ initial_file = output_file
    /\ placed = <<>>
    /\ trace = <<>>
    /\ written = <<>>

\* lines 57-121: one call of output_status
AuditCall ==
    /\ pc = "output_status"
    /\ Len(written) < MaxCalls
    /\ \E line \in AuditLines :
          /\ output_file' = output_status(output_file, line)
          /\ written' = Append(written, [row |-> index, line |-> line])
    /\ index' = index + 1
    /\ UNCHANGED <<pc, exit_status, row, db, local, probes, plans, beamsets,
                   current, initial_file, placed, trace>>

SpecAudit == AuditInit /\ [][AuditCall]_vars

(* ---------------------- the naming loop on its own --------------------- *)
\* desired names of 2, 13, 14, 15, 16 and 17 characters
NamingDesired == {"BS", "HeadNeck_VMAT", "HeadNeck_VMAT1", "HeadNeck_VMAT_1",
                  "HeadNeck_VMAT_01", "HeadNeck_VMAT_001"}

\* beamsets the plan can hold when the loop starts: none, the desired name,
\* another name that begins with it, and the desired name next to the
\* candidates a first collision can produce
NamingNamespaces(desired) ==
    {{}, {desired}, {desired \o "_b"}, {desired, desired \o "_b"}}
    \cup {{desired, Mutate(desired, r)} : r \in Draws}
    \cup {{desired} \cup {Mutate(desired, r) : r \in Draws}}

\* main at line 304 for a row whose patient, case, exam and plan were found
NamingInit ==
    /\ pc = "naming"
    /\ index = 1
    /\ exit_status = None
    /\ db = [n_patients |-> 1, case_found |-> TRUE, exam_first |-> RowExam,
             plan_first |-> RowPlan]
    /\ probes = 0
    /\ plans = {RowPlan}
    /\ \E desired \in NamingDesired :
          /\ row = [NoRow EXCEPT !.BeamsetName = desired, !.PlanName = RowPlan]
          /\ local = [NoLocals EXCEPT
                         !.beamset_name = desired,
                         !.plan_name = RowPlan,
                         !.patient_load = TRUE,
                         !.patient_data = [Error |-> <<>>, Case |-> RowCase,
                                           Patient |-> RowPatientID,
                                           Exam |-> RowExam, Plan |-> RowPlan]]
          /\ \E ns \in NamingNamespaces(desired) :
                beamsets = [p \in PlanNames |-> IF p = RowPlan THEN ns ELSE {}]
    /\ current = [Case |-> RowCase, Plan |-> RowPlan, BeamSet |-> None]
    /\ output_file = AbsentFile
    /\ initial_file = output_file
    /\ placed = <<>>
    /\ trace = <<"LoadPatient", "case.SetCurrent", "plan.SetCurrent">>
    /\ written = <<>>

SpecNaming == NamingInit /\ [][NamingLoop]_vars

(* ------------------------ merge_dict on its own ------------------------ *)
\* numbered target pairs a row can hold
MaxPairs == 3

TargetNames == {"PTV1", "PTV2", "PTV3"}
Doses == {"5000", "6000"}

\* lines 227-228: the column names of pair k
TargetColumn(k) == "Target" \o zfill(StrInt(k), 2)
DoseColumn(k) == "TargetDose" \o zfill(StrInt(k), 2)

\* an empty dict, and d[key] = value
EmptyDict == <<>>
DictSet(d, key, value) ==
    [x \in DOMAIN d \cup {key} |-> IF x = key THEN value ELSE d[x]]

\* the row whose Target column k holds t[k] and whose TargetDose column k
\* holds d[k]; MissingColumn: the file has no such column
RowOf(t, d) ==
    LET cols == {TargetColumn(k) : k \in {j \in 1..MaxPairs : t[j] # MissingColumn}}
                \cup {DoseColumn(k) : k \in {j \in 1..MaxPairs : d[j] # MissingColumn}}
    IN  [c \in cols |->
            LET k == CHOOSE j \in 1..MaxPairs : c \in {TargetColumn(j), DoseColumn(j)}
            IN  IF c = TargetColumn(k) THEN t[k] ELSE d[k]]

MergeRows ==
    {RowOf(t, d) : t \in [1..MaxPairs -> TargetNames \cup {MissingColumn}],
                   d \in [1..MaxPairs -> Doses \cup {NaN, MissingColumn}]}

\* lines 222-224
MergeLocals == [target_column_exists |-> TRUE, target_columns |-> 0,
                target_dict |-> EmptyDict]

\* an iteration in which a NaN dose ends the scan
merge_iteration_nan_stops(r, l) ==
    LET target_name == TargetColumn(l.target_columns + 1)
        target_dose == DoseColumn(l.target_columns + 1)
    IN  IF target_dose \notin DOMAIN r \/ r[target_dose] = NaN
        THEN [l EXCEPT !.target_column_exists = FALSE]
        ELSE IF target_name \notin DOMAIN r
        THEN [l EXCEPT !.target_column_exists = FALSE]
        ELSE [l EXCEPT !.target_dict = DictSet(@, r[target_name], r[target_dose]),
                       !.target_columns = @ + 1]

\* lines 226-233: one iteration of the while loop on row r with locals l.
\* row[target_dose] is read first; row[target_name] only for a dose that
\* is not NaN; either raises KeyError when the column is missing
merge_iteration(r, l) ==
    LET target_name == TargetColumn(l.target_columns + 1)
        target_dose == DoseColumn(l.target_columns + 1)
    IN  IF target_dose \notin DOMAIN r
        THEN [l EXCEPT !.target_column_exists = FALSE]
        ELSE IF r[target_dose] = NaN
        THEN [l EXCEPT !.target_columns = @ + 1]
        ELSE IF target_name \notin DOMAIN r
        THEN [l EXCEPT !.target_column_exists = FALSE]
        ELSE [l EXCEPT !.target_dict = DictSet(@, r[target_name], r[target_dose]),
                       !.target_columns = @ + 1]

\* line 247: merge_dict is applied to a row of the file
MergeInit ==
    /\ pc = "merge_dict"
    /\ index = 1
    /\ exit_status = None
    /\ row \in MergeRows
    /\ db = NoAnswers
    /\ local = MergeLocals
    /\ probes = 0
    /\ plans = {}
    /\ beamsets = [p \in PlanNames |-> {}]
    /\ current = [Case |-> None, Plan |-> None, BeamSet |-> None]
    /\ output_file = AbsentFile
    /\ initial_file = output_file
    /\ placed = <<>>
    /\ trace = <<>>
    /\ written = <<>>

\* lines 225-234: an iteration of the loop; merge_dict returns after the
\* iteration that caught KeyError
MergeStep ==
    /\ pc = "merge_dict"
    /\ local' = merge_iteration(row, local)
    /\ pc' = IF local'.target_column_exists THEN "merge_dict" ELSE "returned"
    /\ UNCHANGED <<index, exit_status, row, db, probes, plans, beamsets, current,
                   output_file, initial_file, placed, trace, written>>

SpecMerge == MergeInit /\ [][MergeStep]_vars

(* ----------------------------- properties ----------------------------- *)
\* output_status calls made for row i
RecordsOf(i) == {k \in 1..Len(written) : written[k].row = i}

\* the plan handle main works on
ThePlan == local.patient_data.Plan

\* load_patient_data has returned for the current row
Returned == local.patient_data.Patient # Unbound

\* the calls made so far for the current row
Called == {trace[k] : k \in 1..Len(trace)}

\* C1: every row the driver has left was given exactly one audit record,
\* whatever stage it stopped at, rows with placed beams included
OneRecordPerRowLeft ==
    \A i \in 1..NumRows :
        (i < index \/ (i = index /\ pc = "continue")) => Cardinality(RecordsOf(i)) = 1

\* C2: a failure of a stage other than the isocenter failure never keeps
\* the rows after it from being attempted: the run ends short of the last
\* row only by the isocenter failure
RowIsolation ==
    (pc = "exited" /\ exit_status # IsoFailure) => index >= NumRows

\* C3: the isocenter failure ends the run with no beam placed and no audit
\* record for the row, and nothing else ends the run before sys.exit('Done')
IsocenterOnlyFatal ==
    /\ (pc = "exited" /\ exit_status = IsoFailure) =>
           /\ placed = <<>>
           /\ RecordsOf(index) = {}
           /\ ~ENABLED Next
    /\ pc = "exited" => exit_status \in {IsoFailure, "Done"}

\* C4: the name the naming loop ends with is absent from the plan's
\* beamsets when the loop ends and until the beamset is created, and the
\* beamset created is the one of that name
ResolvedNameAbsent ==
    /\ pc \in {"select_element", "create_beamset"} =>
           local.beamset_name \notin beamsets[ThePlan]
    /\ pc \in {"find_isocenter", "planning"} =>
           /\ local.rs_beam_set = local.beamset_name
           /\ local.beamset_name \in beamsets[ThePlan]

\* C4 witness: a colliding desired name was resolved and the beamset created
ResolvedNameCreated ==
    /\ pc = "find_isocenter"
    /\ local.beamset_name # row.BeamsetName
    /\ local.rs_beam_set = local.beamset_name

\* C5: an iteration of the naming loop whose query holds no name equal to
\* the candidate leaves the loop
LoopLeftWithoutExactMatch ==
    [][(pc = "naming"
        /\ local.beamset_name \notin QueryBeamSetInfo(beamsets[ThePlan], local.beamset_name))
       => pc' # "naming"]_vars

\* the data lines of the output_status calls, in call order
WrittenLines == [k \in 1..Len(written) |-> written[k].line]

\* C6: after n >= 1 calls on a file that was absent or empty the file is the
\* header followed by the n data lines in call order, the header occurring
\* once; on a file that had content each call appended its data line only
AuditFileProtocol ==
    written # <<>> =>
        /\ output_file.exists
        /\ IF initial_file.lines # <<>>
           THEN output_file.lines = initial_file.lines \o WrittenLines
           ELSE /\ output_file.lines = <<Header>> \o WrittenLines
                /\ Cardinality({k \in 1..Len(output_file.lines) :
                                    output_file.lines[k] = Header}) = 1

\* C6 witness: two calls on a file that existed and was empty
TwoRecordsOnEmptyFile ==
    /\ initial_file.exists
    /\ initial_file.lines = <<>>
    /\ Len(written) = 2
    /\ Len(output_file.lines) = 3

\* C7: when the patient query returns no record or several, the context
\* holds the patient-not-found message and no handle, and the row goes
\* straight to its audit record and the next row
PatientNotFoundStopsRow ==
    (Returned /\ db.n_patients # 1) =>
        /\ local.patient_data =
               [EmptyPatientData EXCEPT
                   !.Error = <<PatientNotFound(RowFirstName, RowLastName, RowPatientID)>>]
        /\ pc = "continue"
        /\ trace = <<"output_status">>
        /\ ~local.patient_load

\* C7 witness: a row whose patient query returned two records
TwoPatientsMatched == Returned /\ db.n_patients = 2 /\ pc = "continue"

\* C8: a returned context has an error and no handle, or no error and all
\* four handles
PatientContextInvariant ==
    Returned =>
        LET d == local.patient_data
        IN  \/ d.Error # <<>> /\ d.Patient = None /\ d.Case = None
               /\ d.Exam = None /\ d.Plan = None
            \/ d.Error = <<>> /\ d.Patient # None /\ d.Case # None
               /\ d.Exam # None /\ d.Plan # None

\* C9: a TomoHelical row whose template holds several beams (the row that
\* logs the invalid-template warning) places no beam, keeps beams_load false, writes its
\* audit record and goes to the next row
InvalidTomoSkipped ==
    "warning" \in Called =>
        /\ placed = <<>>
        /\ ~local.beams_load
        /\ Cardinality(RecordsOf(index)) = 1
        /\ pc = "continue"

\* C10: a VMAT row has its template's beams placed and an audit record
\* with patient_load and beams_load true and status success
VmatRowRecorded ==
    (pc = "continue" /\ local.technique = "VMAT") =>
        /\ placed = local.beams
        /\ \E k \in RecordsOf(index) :
              /\ written[k].line[5] = "True"
              /\ written[k].line[7] = "True"
              /\ written[k].line[11] = "success"

\* the stage flags of an audit record are all false
FlagsFalse(line) == \A c \in 5..10 : line[c] = "False"

\* C11: a row whose patient query did not return one record has one audit
\* record, with every stage flag false and the patient-not-found message
\* as its status field, and the loop goes on to the next row
PatientNotFoundRecorded ==
    (Returned /\ db.n_patients # 1) =>
        /\ pc = "continue"
        /\ Cardinality(RecordsOf(index)) = 1
        /\ \A k \in RecordsOf(index) :
              /\ FlagsFalse(written[k].line)
              /\ written[k].line[11] =
                     PatientNotFound(RowFirstName, RowLastName, RowPatientID)

\* the template lookup of the current row returned no record, so that
\* create_beamset was not called for the row
TemplateNotFound ==
    /\ "select_element" \in Called
    /\ "create_beamset" \notin Called
    /\ pc # "create_beamset"

\* C12: a row whose template lookup yields no record creates no beamset,
\* gets an audit record with its stage flags false, and the loop goes on
\* to the next row
TemplateFailureEndsRow ==
    TemplateNotFound =>
        /\ pc = "continue"
        /\ \E k \in RecordsOf(index) : FlagsFalse(written[k].line)

\* the technique dispatch has run for a row whose technique is neither
\* TomoHelical nor VMAT
UnsupportedDispatched ==
    /\ local.technique \notin {Unbound, "TomoHelical", "VMAT"}
    /\ pc \notin {"create_beamset", "find_isocenter"}

\* C13: after the dispatch of a row whose technique is neither TomoHelical
\* nor VMAT no placement call was made, beams_load is false, the row has
\* exactly one audit record, the planning-structure stage was not run and
\* the loop goes on to the next row
UnsupportedTechniqueSkipped ==
    UnsupportedDispatched =>
        /\ placed = <<>>
        /\ Called \cap {"place_beams_in_beamset", "place_tomo_beam_in_beamset"} = {}
        /\ ~local.beams_load
        /\ Cardinality(RecordsOf(index)) = 1
        /\ \A k \in RecordsOf(index) : written[k].line[7] = "False"
        /\ Called \cap {"parse", "planning_structures"} = {}
        /\ pc = "continue"
        /\ ENABLED Continue

\* C13 witness: an SMLC row was recorded and waits for the next row
SmlcRowSkipped ==
    /\ pc = "continue"
    /\ local.technique = "SMLC"
    /\ "debug" \in Called
    /\ Cardinality(RecordsOf(index)) = 1

\* C14: an audit record whose status is the literal success belongs to a
\* row that had no failure: its patient was loaded and its beams placed
SuccessOnlyWithoutFailure ==
    \A k \in 1..Len(written) :
        written[k].line[11] = "success" =>
            /\ written[k].line[5] = "True"
            /\ written[k].line[7] = "True"

\* the name the row asked for is among the plan's beamsets
DesiredPresent == row.BeamsetName \in beamsets[ThePlan]

\* C15: an iteration of the naming loop for a desired name that the plan's
\* beamsets do not contain ends the loop with the desired name unchanged
AbsentNameReturnedUnchanged ==
    [][(pc = "naming" /\ ~DesiredPresent)
       => (pc' = "select_element" /\ local'.beamset_name = row.BeamsetName)]_vars

\* C16 as stated: a present desired name of more than 14 characters is
\* resolved to a name of the same length
LongNameKeepsLength ==
    (pc = "select_element" /\ DesiredPresent /\ Len(row.BeamsetName) > NameLimit) =>
        Len(local.beamset_name) = Len(row.BeamsetName)

\* C16 amended: a present desired name of more than 14 characters is
\* resolved to its first 14 characters followed by two digits, 16
\* characters whatever the length of the desired name
LongNameResolvedToSixteen ==
    (pc = "select_element" /\ DesiredPresent /\ Len(row.BeamsetName) > NameLimit) =>
        /\ Len(local.beamset_name) = NameLimit + 2
        /\ Prefix(local.beamset_name, NameLimit) = Prefix(row.BeamsetName, NameLimit)

\* C16 witness: a present name of 15 characters was resolved
FifteenCharactersResolved ==
    /\ pc = "select_element"
    /\ DesiredPresent
    /\ Len(row.BeamsetName) = NameLimit + 1
    /\ local.beamset_name # row.BeamsetName

\* C17 as stated: a present desired name of at most 14 characters is
\* resolved to a name two characters longer, however many collisions
ShortNameGrowsByTwo ==
    (pc = "select_element" /\ DesiredPresent /\ Len(row.BeamsetName) <= NameLimit) =>
        Len(local.beamset_name) = Len(row.BeamsetName) + 2

\* C17 amended: a present desired name of at most 14 characters is resolved
\* to a name that begins with it and is longer by two characters for every
\* collision, up to 16 characters; by exactly two when no other beamset of
\* the plan begins with the desired name (a single collision)
ShortNameGrowsPerCollision ==
    (pc = "select_element" /\ DesiredPresent /\ Len(row.BeamsetName) <= NameLimit) =>
        LET had == Len(row.BeamsetName)
            got == Len(local.beamset_name)
        IN  /\ StartsWith(local.beamset_name, row.BeamsetName)
            /\ got >= had + 2
            /\ got <= NameLimit + 2
            /\ (got - had) % 2 = 0 \/ got = NameLimit + 2
            /\ (\A n \in beamsets[ThePlan] :
                    StartsWith(n, row.BeamsetName) => n = row.BeamsetName)
               => got = had + 2

\* C17 witness: a present name of 2 characters met two collisions
TwoCollisionsResolved ==
    /\ pc = "select_element"
    /\ DesiredPresent
    /\ Len(row.BeamsetName) = 2
    /\ Len(local.beamset_name) = 6

\* C18: the planning-structure configuration is parsed, and the region
\* generation entered, only for a row whose workflow cell holds a name:
\* never for a row whose cell is empty or whose column is missing
PlanningOnlyWhenNamed ==
    Called \cap {"parse", "planning_structures"} # {} =>
        row.PlanningStructureWorkflow \in Workflows

\* the current row named a workflow, its configuration was parsed and no
\* preset matched the name
PresetNotFound ==
    /\ row.PlanningStructureWorkflow \in Workflows
    /\ "parse" \in Called
    /\ "planning_structures" \notin Called
    /\ pc = "continue"

\* C19: a row that names a workflow no preset matches does not reach the
\* region generation, has planning_structs false, has its outcome in the
\* audit log and lets the loop go on
PresetNotFoundRecorded ==
    PresetNotFound =>
        /\ ~local.planning_structs
        /\ ENABLED Continue
        /\ \E k \in RecordsOf(index) : written[k].line[6] = "False"

\* both columns of every pair 1..n are in the row
PairsPresent(n) ==
    \A k \in 1..n : TargetColumn(k) \in DOMAIN row /\ DoseColumn(k) \in DOMAIN row

\* the pairs 1..n whose dose is not NaN
Populated(n) == {k \in 1..n : row[DoseColumn(k)] # NaN}

\* C20 as stated: for pairs 1..n present and pair n+1 absent the mapping
\* returned has one entry per pair of 1..n whose dose is not NaN, from the
\* pair's target name to its dose, and no other entry
MergeOneEntryPerPair ==
    \A n \in 0..MaxPairs :
        (/\ pc = "returned"
         /\ PairsPresent(n)
         /\ TargetColumn(n + 1) \notin DOMAIN row
         /\ DoseColumn(n + 1) \notin DOMAIN row) =>
            LET target_dict == local.target_dict
            IN  /\ Cardinality(DOMAIN target_dict) = Cardinality(Populated(n))
                /\ \A k \in Populated(n) :
                      /\ row[TargetColumn(k)] \in DOMAIN target_dict
                      /\ target_dict[row[TargetColumn(k)]] = row[DoseColumn(k)]
                /\ DOMAIN target_dict \subseteq {row[TargetColumn(k)] : k \in Populated(n)}

\* C20 amended: for pairs 1..n present and the dose column of pair n+1
\* absent the mapping returned has one entry per target name of the pairs
\* of 1..n whose dose is not NaN, from the name to the dose of the highest
\* such pair of that name, and no other entry: one entry per pair when the
\* names of those pairs differ
MergeOneEntryPerName ==
    \A n \in 0..MaxPairs :
        (/\ pc = "returned"
         /\ PairsPresent(n)
         /\ DoseColumn(n + 1) \notin DOMAIN row) =>
            LET target_dict == local.target_dict
                named(x) == {k \in Populated(n) : row[TargetColumn(k)] = x}
            IN  /\ DOMAIN target_dict = {row[TargetColumn(k)] : k \in Populated(n)}
                /\ \A x \in DOMAIN target_dict :
                      \E k \in named(x) :
                          /\ \A j \in named(x) : j <= k
                          /\ target_dict[x] = row[DoseColumn(k)]
                /\ (\A j, k \in Populated(n) :
                        row[TargetColumn(j)] = row[TargetColumn(k)] => j = k)
                   => Cardinality(DOMAIN target_dict) = Cardinality(Populated(n))
                /\ local.target_columns = n

\* C20 witness: three pairs of different names, the second with a NaN
\* dose, gave a mapping of the first and the third
NanPairSkipped ==
    /\ pc = "returned"
    /\ PairsPresent(3)
    /\ DoseColumn(4) \notin DOMAIN row
    /\ row[DoseColumn(2)] = NaN
    /\ row[TargetColumn(1)] # row[TargetColumn(3)]
    /\ DOMAIN local.target_dict = {row[TargetColumn(1)], row[TargetColumn(3)]}

\* the examination query of the current row was made: one patient matched
\* and the case was found
ExamQueried == pc # "for" /\ db.n_patients = 1 /\ db.case_found

\* C21: when the examination query returns no result, or a first result
\* whose name is not the requested name, load_patient_data returns the
\* failure 'Exam {name} not found' without a plan handle, no plan is
\* created and the row goes to its audit record
ExamMismatchStopsRow ==
    (ExamQueried /\ db.exam_first # RowExam) =>
        /\ local.patient_data.Error = <<ExamNotFound(RowExam)>>
        /\ local.patient_data.Plan = None
        /\ "AddNewPlan" \notin Called
        /\ pc = "continue"

\* positions of a call among the calls of the current row
Positions(call) == {k \in 1..Len(trace) : trace[k] = call}

\* C22: in a row whose examination was resolved, the requested plan is in
\* the case when load_patient_data has returned: it was there, and then
\* it was not created and nothing was saved, or it was absent, and then it
\* was created once, the save came right after, and the handle returned is
\* the created plan
PlanCreatedWhenAbsent ==
    (Returned /\ ExamQueried /\ db.exam_first = RowExam) =>
        /\ RowPlan \in plans
        /\ IF "AddNewPlan" \in Called
           THEN /\ Cardinality(Positions("AddNewPlan")) = 1
                /\ \A k \in Positions("AddNewPlan") : trace[k + 1] = "Save"
                /\ local.patient_data.Plan = RowPlan
           ELSE trace[1] = "LoadPatient" /\ (Len(trace) > 1 => trace[2] # "Save")

\* the two-character texts '01' .. '99'
TwoDigitTexts == {zfill(StrInt(n), 2) : n \in RandLow..RandHigh}

\* s[-2:]
LastTwo(s) == SubSeq(s, Len(s) - 1, Len(s))

\* C23: a candidate the naming loop has mutated ends in two digits of
\* '01'..'99' and has at most 16 characters; an existing desired name of
\* 16 characters is resolved to 16 characters that keep its first 14
MutatedCandidateShape ==
    /\ (pc \in {"naming", "select_element"} /\ local.beamset_name # row.BeamsetName) =>
           /\ LastTwo(local.beamset_name) \in TwoDigitTexts
           /\ Len(local.beamset_name) <= NameLimit + 2
    /\ (pc = "select_element" /\ DesiredPresent
           /\ Len(row.BeamsetName) = NameLimit + 2) =>
           /\ Len(local.beamset_name) = NameLimit + 2
           /\ Prefix(local.beamset_name, NameLimit) = Prefix(row.BeamsetName, NameLimit)
           /\ LastTwo(local.beamset_name) \in TwoDigitTexts

\* C23 witness: an existing name of 16 characters was resolved to another
SixteenCharactersResolved ==
    /\ pc = "select_element"
    /\ DesiredPresent
    /\ Len(row.BeamsetName) = NameLimit + 2
    /\ local.beamset_name # row.BeamsetName
    /\ Len(local.beamset_name) = NameLimit + 2

\* the stages of a row that passed entity resolution
AfterResolution == {"naming", "select_element", "create_beamset",
                    "find_isocenter", "planning"}

\* case.SetCurrent and then plan.SetCurrent lie before position k of the
\* trace
ResolvedMadeCurrentBefore(k) ==
    \E c \in 1..(k - 2) : trace[c] = "case.SetCurrent" /\ trace[c + 1] = "plan.SetCurrent"

\* create_beamset, the save and then beamset.SetCurrent lie before
\* position k of the trace
BeamsetMadeCurrentBefore(k) ==
    \E c \in 1..(k - 3) :
        /\ trace[c] = "create_beamset"
        /\ trace[c + 1] = "Save"
        /\ trace[c + 2] = "beamset.SetCurrent"

\* the calls that rely on the current beamset
BeamsetUsers == {"find_isocenter_parameters", "place_beams_in_beamset",
                 "place_tomo_beam_in_beamset"}

\* the row's case and plan are current from the naming probe on, its
\* beamset from the isocenter on, and the calls were made in that order
PointersSetBeforeUse ==
    /\ pc \in AfterResolution =>
           /\ current.Case # None /\ current.Case = local.patient_data.Case
           /\ current.Plan # None /\ current.Plan = ThePlan
    /\ pc \in {"find_isocenter", "planning"} =>
           current.BeamSet # None /\ current.BeamSet = local.rs_beam_set
    /\ \A k \in 1..Len(trace) :
           /\ trace[k] = "create_beamset" => ResolvedMadeCurrentBefore(k)
           /\ trace[k] \in BeamsetUsers => BeamsetMadeCurrentBefore(k)

OnlyPatientLoadedTrue ==
    \A k \in 1..Len(written) :
        SubSeq(written[k].line, 6, 10) = <<"False", "False", "False", "False", "False">>

\* C25 witness: a record with Patient Loaded True is in the file
PatientLoadedRecorded ==
    \E k \in 2..Len(output_file.lines) :
        /\ output_file.lines[k][5] = "True"
        /\ output_file.lines[k] = written[k - 1].line

\* C26: when place_tomo_beam_in_beamset was called for the current row,
\* the beam handed to it is the one beam of the row's own template
TomoBeamIsOwn ==
    (pc # "exited" /\ "place_tomo_beam_in_beamset" \in Called) =>
        /\ Len(local.beams) = 1
        /\ placed = local.beams
        /\ \A k \in 1..Len(placed) : placed[k].row = index /\ placed[k] # UnboundBeam

\* the run was ended by the isocenter failure
IsoAborted == pc = "exited" /\ exit_status = IsoFailure

\* C27: the beamset was created and the patient saved before the
\* isocenter is computed, and a row of unsupported technique, like a run
\* ended by the isocenter failure, leaves the beamset of the resolved name
\* in the plan with no beam placed
BeamsetLeftWithoutBeams ==
    /\ \A k \in 1..Len(trace) :
           trace[k] = "find_isocenter_parameters" => BeamsetMadeCurrentBefore(k)
    /\ UnsupportedDispatched =>
           /\ local.rs_beam_set = local.beamset_name
           /\ local.beamset_name \in beamsets[ThePlan]
           /\ placed = <<>>
    /\ IsoAborted =>
           /\ current.BeamSet \in beamsets[current.Plan]
           /\ placed = <<>>
           /\ Called \cap {"place_beams_in_beamset", "place_tomo_beam_in_beamset"} = {}

\* C27 witness: the second row's isocenter failure ended the run with two
\* beamsets in the plan
SecondRowIsoAborted ==
    /\ IsoAborted
    /\ index = 2
    /\ current.BeamSet \in beamsets[current.Plan]
    /\ Cardinality(beamsets[current.Plan]) >= 2

\* C28: no row has more than one audit record, the records were written
\* in the order of their rows, and the file holds them in that order
RecordsInRowOrder ==
    /\ \A i \in 1..NumRows : Cardinality(RecordsOf(i)) <= 1
    /\ \A j, k \in 1..Len(written) : j < k => written[j].row < written[k].row
    /\ written # <<>> => output_file.lines = <<Header>> \o WrittenLines

\* C28 witness: both rows have their record in the file
BothRowsRecorded ==
    /\ Len(written) = 2
    /\ written[1].row = 1
    /\ written[2].row = 2
    /\ Len(output_file.lines) = 3
====
